---------------------------- MODULE Spec2Model ----------------------------
(***************************************************************************)
(* The availability pipeline of golfstar-booker: the `availability`       *)
(* command (cli/app.py), the course selection helper, and                  *)
(* GolfstarAPIClient.get_available_times with its normalizer and           *)
(* competition filter (api/client.py), over the pydantic models of         *)
(* models/teetime.py and models/course.py.                                 *)
(*                                                                         *)
(* JSON values are records with a kind tag k, so that an absent key, a     *)
(* null and a value are three different inputs.  Free text (category      *)
(* descriptions, course names) is a sequence of characters, one string     *)
(* per character; "ae" and "AE" stand for the letters a-umlaut and         *)
(* A-umlaut.  Identifiers (uuids) are plain strings.                       *)
(*                                                                         *)
(* Four specifications share the actions: Spec is the availability command *)
(* with its default window over every answer of the server; SpecCommands   *)
(* is the three commands that open a client, over every command line;      *)
(* SpecCall is get_available_times called directly with any arguments;     *)
(* SpecCriteria is get_courses_by_criteria over catalogs and criteria.      *)
(***************************************************************************)
EXTENDS Integers, Sequences, FiniteSets, TLC

VARIABLES
  pc,             \* position of the command (or of the call) being run
  command,        \* which entry point runs: a command, or get_available_times
  criteria,       \* --id, --name, --all
  players,        \* --players
  window,         \* --start and --end as given on the command line
  utc_offset,     \* the machine's local zone, as its offset from UTC
  start_dt,       \* the start datetime the command computed
  end_dt,         \* the end datetime the command computed
  paging,         \* limit and page of the get_available_times call
  client,         \* the GolfstarAPIClient: "none", "open" or "closed"
  catalog,        \* what get_courses returned
  course_requests,\* the /courses requests issued, each with its outcome
  warnings,       \* the warnings get_courses_by_criteria printed
  courses,        \* the selected courses (get_courses_by_criteria's result)
  idx,            \* get_available_times: index of the course being queried
  data,           \* get_available_times: shape of the response being read
  left,           \* get_available_times: records of `items` not yet iterated
  item,           \* get_available_times: the record of the loop body
  event,          \* what the loop body did with `item` (its log record)
  all_tee_times,  \* get_available_times: the accumulator
  nrec,           \* records iterated so far by this call
  requests,       \* the /tee-times requests issued, each with its outcome
  result,         \* what get_available_times handed to the command
  tee_times,      \* the command's tee_times after the enrichment loop
  exit_code,      \* -1 while running, then the command's exit code
  message         \* what the command reported when it ended

\* What the command line and the machine fix for a run.
argvars == <<command, criteria, players, window, utc_offset, start_dt, end_dt, paging>>

\* The state of the record loop of get_available_times.
loopvars == <<data, left, item, event, nrec>>

vars == <<pc, argvars, client, catalog, course_requests, warnings, courses, idx,
          loopvars, all_tee_times, requests, result, tee_times, exit_code, message>>

(***************************************************************************)
(* Bounds.                                                                 *)
(***************************************************************************)
\* Records read from /tee-times responses during one call, all courses together.
MaxRecords == 2

\* The same, where the arguments of the command or of the call are what varies.
BriefRecords == 1

\* Values of a repeated --id or --name option.
MaxArgs == 2

(***************************************************************************)
(* Text: str.lower() and the `in` substring test.                          *)
(***************************************************************************)
LowerChar(c) ==
  CASE c = "T" -> "t" [] c = "AE" -> "ae" [] c = "V" -> "v" [] c = "L" -> "l"
    [] c = "I" -> "i" [] c = "N" -> "n" [] c = "G" -> "g" [] c = "B" -> "b"
    [] c = "O" -> "o" [] c = "A" -> "a" [] c = "R" -> "r" [] c = "M" -> "m"
    [] c = "D" -> "d" [] c = "E" -> "e"
    [] OTHER -> c

Lower(s) == [i \in DOMAIN s |-> LowerChar(s[i])]

Contains(hay, needle) ==
  \E i \in 0..(Len(hay) - Len(needle)) :
    SubSeq(hay, i + 1, i + Len(needle)) = needle

\* "tävling"
Marker == <<"t", "ae", "v", "l", "i", "n", "g">>

(***************************************************************************)
(* JSON values.                                                            *)
(***************************************************************************)
NoText == [k |-> "absent", s |-> <<>>]
NullText == [k |-> "null", s |-> <<>>]
Text(s) == [k |-> "str", s |-> s]

NoId == [k |-> "absent", u |-> ""]
NullId == [k |-> "null", u |-> ""]
Id(u) == [k |-> "str", u |-> u]

NoInt == [k |-> "absent", n |-> 0]
NullInt == [k |-> "null", n |-> 0]
Int_(n) == [k |-> "int", n |-> n]

NoFrom == [k |-> "absent", t |-> 0]
Aware(t) == [k |-> "aware", t |-> t]     \* "2025-01-15T07:00:00Z"
Naive(t) == [k |-> "naive", t |-> t]     \* "2025-01-15T07:00:00"
BadFrom == [k |-> "bad", t |-> 0]        \* not a datetime

NoClub == [k |-> "absent", name |-> NoText]
NullClub == [k |-> "null", name |-> NoText]
ClubObj(name) == [k |-> "dict", name |-> name]

\* k: "absent", "other" (a null or anything that is not an object), "dict"
NoCourse == [k |-> "absent", id |-> NoInt, uuid |-> NoId, name |-> NoText, club |-> NoClub]
OtherCourse == [NoCourse EXCEPT !.k = "other"]
CourseObj(id, uuid, name, club) ==
  [k |-> "dict", id |-> id, uuid |-> uuid, name |-> name, club |-> club]

\* k: "absent", "null", "other" (a non-empty value that is not an object), "dict"
NoCategory == [k |-> "absent", description |-> NoText, custom_name |-> NoText]
CategoryObj(description, custom_name) ==
  [k |-> "dict", description |-> description, custom_name |-> custom_name]

\* k: "absent", "null", "other" (a number or string), "dict"; valid: Money(**price) succeeds
NoPrice == [k |-> "absent", valid |-> TRUE]
PriceObj(valid) == [k |-> "dict", valid |-> valid]

\* A raw record with the plain fields only.
Plain(u, from, slots) ==
  [k |-> "dict", uuid |-> Id(u), from |-> from, available_slots |-> slots,
   category |-> NoCategory, course |-> NoCourse, price |-> NoPrice]

\* An element of the record list that is not an object.
NotARecord == [Plain("", NoFrom, NoInt) EXCEPT !.k = "other", !.uuid = NoId]

TavlingBokad == <<"T", "ae", "v", "l", "i", "n", "g", " ", "b", "o", "k", "a", "d">>
TAVLING == <<"T", "AE", "V", "L", "I", "N", "G">>
Tavling == <<"T", "a", "v", "l", "i", "n", "g">>      \* no umlaut: not the marker
Greenfee == <<"G", "r", "e", "e", "n">>
Bromma == <<"B", "r", "o", "m", "m", "a">>
Bodaholm == <<"B", "o", "d", "a">>
Golfstar == <<"G", "o", "l", "f">>

\* The raw records the server may answer with.
SampleRecords ==
  { Plain("t1", Aware(7), Int_(2)),
    Plain("t2", Aware(5), Int_(1)),
    [Plain("t3", Naive(6), Int_(2)) EXCEPT !.price = PriceObj(TRUE)],
    Plain("t4", NoFrom, Int_(2)),
    Plain("t5", Aware(5), NoInt),
    Plain("t6", Aware(5), NullInt),
    [Plain("t7", Aware(5), Int_(2)) EXCEPT !.uuid = NoId],
    NotARecord,
    [Plain("t9", Aware(5), Int_(4)) EXCEPT
       !.category = CategoryObj(NoText, Text(<<"T", "ae", "v", "l", "i", "n", "g">>))],
    [Plain("t10", Aware(5), Int_(2)) EXCEPT
       !.category = CategoryObj(Text(TAVLING), Text(<<>>))],
    [Plain("t11", Aware(5), Int_(2)) EXCEPT
       !.category = CategoryObj(Text(TavlingBokad), NoText), !.uuid = NoId],
    [Plain("t12", Aware(7), Int_(2)) EXCEPT
       !.category = CategoryObj(Text(Greenfee), Text(Tavling)),
       !.course = CourseObj(Int_(7), Id("cB"), Text(Bodaholm), ClubObj(Text(Golfstar)))],
    [Plain("t13", Aware(5), Int_(2)) EXCEPT
       !.category = CategoryObj(NullText, Text(Greenfee))],
    [Plain("t14", Aware(5), Int_(2)) EXCEPT
       !.category = CategoryObj(NoText, NoText), !.course = OtherCourse],
    [Plain("t15", Aware(5), Int_(2)) EXCEPT
       !.course = CourseObj(NoInt, Id(""), NoText, NoClub)],
    [Plain("t16", Aware(5), Int_(2)) EXCEPT
       !.course = CourseObj(Int_(7), NullId, Text(Bodaholm), NoClub)],
    [Plain("t17", Aware(5), Int_(2)) EXCEPT
       !.course = CourseObj(Int_(9), NoId, NoText, ClubObj(NoText))],
    [Plain("t18", Aware(5), Int_(2)) EXCEPT
       !.course = CourseObj(Int_(9), Id("cZ"), Text(Bromma), NullClub)],
    [Plain("t19", Aware(5), Int_(2)) EXCEPT !.price = PriceObj(FALSE)],
    Plain("t20", BadFrom, Int_(2)) }


(***************************************************************************)
(* The domain model (models/teetime.py, models/course.py).                 *)
(***************************************************************************)
NoneText == [k |-> "none", s |-> <<>>]
SomeText(s) == [k |-> "str", s |-> s]

\* An Optional[str] field read from a JSON value that is absent, null or a string.
OptionalStr(v) == IF v.k = "str" THEN SomeText(v.s) ELSE NoneText

\* TeeTimeCourse(id, uuid, name, club_name); club_name is Optional[str].
TeeTimeCourse(id, uuid, name, club_name) ==
  [id |-> id, uuid |-> uuid, name |-> name, club_name |-> club_name]

\* Course, with the fields the pipeline reads: id, uuid, name and club.name.
Course(id, uuid, name, club_name) ==
  [id |-> id, uuid |-> uuid, name |-> name, club_name |-> club_name]

\* TeeTime.category: Optional[TeeTimeCategory] with its two Optional[str] texts.
NoneCategory == [k |-> "none", description |-> NoneText, custom_name |-> NoneText]
TeeTimeCategory(c) ==
  IF c.k = "dict"
    THEN [k |-> "obj", description |-> OptionalStr(c.description),
          custom_name |-> OptionalStr(c.custom_name)]
    ELSE NoneCategory

\* TeeTime.from_time: Optional[datetime], zone-aware or naive as the text was.
FromTime(f) == IF f.k \in {"aware", "naive"} THEN [k |-> f.k, t |-> f.t]
               ELSE [k |-> "none", t |-> 0]

\* Whether TeeTime(**item) validates: uuid is a required str, `from` an optional
\* datetime, category an optional object, price an optional Money.
TeeTimeValid(it) ==
  /\ it.uuid.k = "str"
  /\ it.from.k # "bad"
  /\ it.category.k # "other"
  /\ it.price.k # "other"

\* TeeTime(**item), for an item whose course the normalizer has replaced by `course`.
TeeTime(it, course) ==
  [uuid |-> it.uuid.u,
   from_time |-> FromTime(it.from),
   available_slots |-> IF it.available_slots.k = "int" THEN it.available_slots.n ELSE 0,
   category |-> TeeTimeCategory(it.category),
   price |-> it.price.k = "dict",
   course |-> course]

(***************************************************************************)
(* The competition filter (client.py, is_competition_time).  It answers    *)
(* "true" or "false", or "raise" when .get or .lower() is called on a      *)
(* value that has no such method.                                          *)
(***************************************************************************)
\* category.get(key, "").lower(): the text, "" when the key is absent.
TextOrEmpty(v) == IF v.k = "str" THEN v.s ELSE <<>>

\* `not category`: the key is absent, or its value is null or an empty object.
CategoryFalsy(c) ==
  \/ c.k \in {"absent", "null"}
  \/ c.k = "dict" /\ c.description.k = "absent" /\ c.custom_name.k = "absent"

is_competition_time_case_sensitive(it) ==
  IF CategoryFalsy(it.category) THEN "false"
  ELSE IF it.category.k = "other" THEN "raise"
  ELSE IF it.category.description.k = "null" \/ it.category.custom_name.k = "null"
         THEN "raise"
  ELSE IF \/ Contains(TextOrEmpty(it.category.description), Marker)
          \/ Contains(TextOrEmpty(it.category.custom_name), Marker)
         THEN "true" ELSE "false"

is_competition_time(it) ==
  IF CategoryFalsy(it.category) THEN "false"
  ELSE IF it.category.k = "other" THEN "raise"
  ELSE IF it.category.description.k = "null" \/ it.category.custom_name.k = "null"
         THEN "raise"
  ELSE IF \/ Contains(Lower(TextOrEmpty(it.category.description)), Marker)
          \/ Contains(Lower(TextOrEmpty(it.category.custom_name)), Marker)
         THEN "true" ELSE "false"

(***************************************************************************)
(* The normalizer: the body of `for item in items` (client.py 186-224).    *)
(* Its answer is the log record of the iteration and the TeeTime appended: *)
(*   "appended"     a TeeTime was appended (out holds it)                  *)
(*   "below"        available_slots < players, nothing logged              *)
(*   "competition"  the competition filter skipped it (a debug record)     *)
(*   "warning"      an exception was caught ("Failed to parse tee time")   *)
(***************************************************************************)
Skipped(ev) == [event |-> ev, out |-> <<>>]

\* The course sub-object is a dict and TeeTimeCourse(...) can be built from it:
\* the club, if given, is an object, and id, uuid and name are not null.
CourseInfoBuilds(c) ==
  /\ c.club.k # "null"
  /\ c.id.k # "null"
  /\ c.uuid.k # "null"
  /\ c.name.k # "null"

\* item["course"].get("club", {}).get("name", "") if "club" in item["course"] else ""
ClubName(c) ==
  IF c.club.k = "dict"
    THEN (IF c.club.name.k = "absent" THEN SomeText(<<>>) ELSE OptionalStr(c.club.name))
    ELSE SomeText(<<>>)

\* The TeeTimeCourse the normalizer puts in item["course"] (client.py 192-210).
CourseInfo(c, course_uuid) ==
  IF c.k = "dict"
    THEN TeeTimeCourse(IF c.id.k = "int" THEN c.id.n ELSE 0,
                       IF c.uuid.k = "absent" THEN course_uuid ELSE c.uuid.u,
                       TextOrEmpty(c.name),
                       ClubName(c))
    ELSE TeeTimeCourse(0, course_uuid, <<>>, SomeText(<<>>))

\* available_slots >= players, with item.get("available_slots", 0).
EnoughSlots_any_free_slot(slots, p) ==
  (IF slots.k = "absent" THEN 0 ELSE slots.n) >= 1

EnoughSlots(slots, p) ==
  (IF slots.k = "absent" THEN 0 ELSE slots.n) >= p

ParseItem(it, course_uuid, p) ==
  IF it.k # "dict" THEN Skipped("warning")                \* item.get: AttributeError
  ELSE IF it.available_slots.k = "null" THEN Skipped("warning")   \* None >= players
  ELSE IF ~EnoughSlots(it.available_slots, p) THEN Skipped("below")
  ELSE IF it.course.k = "dict" /\ ~CourseInfoBuilds(it.course) THEN Skipped("warning")
  ELSE IF it.price.k = "dict" /\ ~it.price.valid THEN Skipped("warning")   \* Money(**price)
  ELSE IF is_competition_time(it) = "raise" THEN Skipped("warning")
  ELSE IF is_competition_time(it) = "true" THEN Skipped("competition")
  ELSE IF ~TeeTimeValid(it) THEN Skipped("warning")
  ELSE [event |-> "appended", out |-> <<TeeTime(it, CourseInfo(it.course, course_uuid))>>]

(***************************************************************************)
(* all_tee_times.sort(key=lambda t: t.from_time) (client.py 237).          *)
(***************************************************************************)
SortRaises_when_empty(tts) ==
  \/ tts = <<>>
  \/ /\ Len(tts) >= 2
     /\ \/ \E i \in DOMAIN tts : tts[i].from_time.k = "none"
        \/ \E i, j \in DOMAIN tts : tts[i].from_time.k # tts[j].from_time.k

\* The keys cannot be ordered: `<` raises TypeError on a None and between a
\* zone-aware and a naive datetime.  A list of one element is never compared.
SortRaises(tts) ==
  /\ Len(tts) >= 2
  /\ \/ \E i \in DOMAIN tts : tts[i].from_time.k = "none"
     \/ \E i, j \in DOMAIN tts : tts[i].from_time.k # tts[j].from_time.k

\* x put after every element that is not later than it (list.sort is stable).
RECURSIVE InsertByFrom(_, _)
InsertByFrom(x, s) ==
  IF s = <<>> THEN <<x>>
  ELSE IF s[Len(s)].from_time.t <= x.from_time.t THEN Append(s, x)
  ELSE Append(InsertByFrom(x, SubSeq(s, 1, Len(s) - 1)), s[Len(s)])

Unsorted(tts) == tts

RECURSIVE SortByFrom(_)
SortByFrom(tts) ==
  IF tts = <<>> THEN <<>>
  ELSE InsertByFrom(tts[Len(tts)], SortByFrom(SubSeq(tts, 1, Len(tts) - 1)))

(***************************************************************************)
(* The response body: data = response.json() and the record list resolved  *)
(* from it (client.py 176-183).  A list is described by its length; its    *)
(* records are drawn one by one as the loop reaches them.                  *)
(***************************************************************************)
NoList == [k |-> "absent", n |-> 0]
NullList == [k |-> "null", n |-> 0]
ListOf(n) == [k |-> "list", n |-> n]

\* kind: "list" (a bare array of n records), "object" (an envelope with its
\* two keys), "scalar" (a JSON string, number or null), "none" (nothing read yet)
BareList(n) == [kind |-> "list", n |-> n, hydra |-> NoList, items |-> NoList]
Envelope(hydra, items) == [kind |-> "object", n |-> 0, hydra |-> hydra, items |-> items]
Scalar == [kind |-> "scalar", n |-> 0, hydra |-> NoList, items |-> NoList]
NoData == [kind |-> "none", n |-> 0, hydra |-> NoList, items |-> NoList]

\* What `items` is, and whether `for item in items` can iterate it: a scalar has
\* no .get, and a null under the chosen key is not iterable.
Resolved(src, n) == [ok |-> TRUE, src |-> src, n |-> n]
Unreadable == [ok |-> FALSE, src |-> "-", n |-> 0]

ResolveItems_items_first(d) ==
  IF d.kind = "list" THEN Resolved("list", d.n)
  ELSE IF d.kind # "object" THEN Unreadable
  ELSE IF d.items.k # "absent"
         THEN (IF d.items.k = "list" THEN Resolved("items", d.items.n) ELSE Unreadable)
  ELSE IF d.hydra.k # "absent"
         THEN (IF d.hydra.k = "list" THEN Resolved("hydra:member", d.hydra.n) ELSE Unreadable)
  ELSE Resolved("default", 0)

ResolveItems(d) ==
  IF d.kind = "list" THEN Resolved("list", d.n)
  ELSE IF d.kind # "object" THEN Unreadable
  ELSE IF d.hydra.k # "absent"
         THEN (IF d.hydra.k = "list" THEN Resolved("hydra:member", d.hydra.n) ELSE Unreadable)
  ELSE IF d.items.k # "absent"
         THEN (IF d.items.k = "list" THEN Resolved("items", d.items.n) ELSE Unreadable)
  ELSE Resolved("default", 0)

\* The bodies a 2xx answer may carry when b more records may be read: a bare
\* list, an envelope with either key, with both or with none, an envelope whose
\* list is null, and a scalar.
Bodies(b) ==
  {BareList(n) : n \in 0..b}
    \cup {Envelope(ListOf(n), NoList) : n \in 0..b}
    \cup {Envelope(NoList, ListOf(n)) : n \in 0..b}
    \cup {Envelope(ListOf(n), ListOf(m)) : n \in 0..b, m \in {1}}
    \cup {Envelope(NoList, NoList), Envelope(NullList, ListOf(1)),
          Envelope(NoList, NullList), Scalar}

(***************************************************************************)
(* The course catalog and the selection helper (app.py 205-252).           *)
(***************************************************************************)
Catalog ==
  << Course(903, "cA", Bromma, Golfstar), Course(904, "cB", Bodaholm, Golfstar) >>

SelectByIds_stop_at_unmatched(all, ids) ==
  LET Hit(id) == {i \in DOMAIN all : all[i].id = id}
      miss == {k \in DOMAIN ids : Hit(ids[k]) = {}}
      n == IF miss = {} THEN Len(ids)
           ELSE (CHOOSE k \in miss : \A j \in miss : k <= j) - 1
  IN [k \in 1..n |-> all[CHOOSE i \in Hit(ids[k]) : \A j \in Hit(ids[k]) : i <= j]]

\* The `for course_id in course_ids` loop: the first course of that id, if any.
RECURSIVE SelectByIds(_, _)
SelectByIds(all, ids) ==
  IF ids = <<>> THEN <<>>
  ELSE LET hits == {i \in DOMAIN all : all[i].id = Head(ids)}
           first == IF hits = {} THEN <<>>
                    ELSE <<all[CHOOSE i \in hits : \A j \in hits : i <= j]>>
       IN first \o SelectByIds(all, Tail(ids))

\* [c for c in all if name_query.lower() in c.name.lower()]
RECURSIVE Matches(_, _)
Matches(all, q) ==
  IF all = <<>> THEN <<>>
  ELSE (IF Contains(Lower(Head(all).name), Lower(q)) THEN <<Head(all)>> ELSE <<>>)
         \o Matches(Tail(all), q)

RECURSIVE SelectByNames(_, _)
SelectByNames(all, names) ==
  IF names = <<>> THEN <<>>
  ELSE Matches(all, Head(names)) \o SelectByNames(all, Tail(names))

Unique_keep_all(cs, seen) == cs

\* "Remove duplicates while preserving order": by course id, first seen kept.
RECURSIVE Unique(_, _)
Unique(cs, seen) ==
  IF cs = <<>> THEN <<>>
  ELSE IF Head(cs).id \in seen THEN Unique(Tail(cs), seen)
  ELSE <<Head(cs)>> \o Unique(Tail(cs), seen \cup {Head(cs).id})

get_courses_by_criteria(all, course_ids, course_names, all_courses) ==
  IF all_courses THEN all
  ELSE Unique(SelectByIds(all, course_ids) \o SelectByNames(all, course_names), {})

\* The warnings printed on the way: one per id that no course has, then one
\* per name query that no course name contains.
IdWarning(id) == [kind |-> "id", id |-> id, query |-> <<>>]
NameWarning(q) == [kind |-> "name", id |-> 0, query |-> q]

RECURSIVE IdWarnings(_, _)
IdWarnings(all, ids) ==
  IF ids = <<>> THEN <<>>
  ELSE (IF \E i \in DOMAIN all : all[i].id = Head(ids) THEN <<>>
        ELSE <<IdWarning(Head(ids))>>)
         \o IdWarnings(all, Tail(ids))

RECURSIVE NameWarnings(_, _)
NameWarnings(all, names) ==
  IF names = <<>> THEN <<>>
  ELSE (IF Matches(all, Head(names)) # <<>> THEN <<>> ELSE <<NameWarning(Head(names))>>)
         \o NameWarnings(all, Tail(names))

criteria_warnings(all, course_ids, course_names, all_courses) ==
  IF all_courses THEN <<>>
  ELSE IdWarnings(all, course_ids) \o NameWarnings(all, course_names)

\* The --id / --name / --all arguments the command is started with.
Criteria(ids, names, all) == [ids |-> ids, names |-> names, all |-> all]

SampleCriteria ==
  { Criteria(<<>>, <<>>, FALSE),
    Criteria(<<>>, <<>>, TRUE),
    Criteria(<<903>>, <<>>, FALSE),
    Criteria(<<999>>, <<>>, FALSE),
    Criteria(<<>>, << <<"b", "O", "d">> >>, FALSE) }

\* --players: any int, 1 when not given.
SamplePlayers == {0, 1, 2}

\* Catalogs the server may answer /courses with: course ids are its keys, two
\* courses may carry the same name.
SampleCatalogs ==
  { <<>>,
    Catalog,
    << Catalog[2], Catalog[1] >>,
    Catalog \o << Course(905, "cC", Bromma, Golfstar) >> }

SeqsUpTo(S, n) == UNION {[1..k -> S] : k \in 0..n}

\* Every combination of up to MaxArgs ids, up to MaxArgs name queries and --all.
\* "b" is in every sample name, "bOd" in one, "x" in none.
CriteriaSpace ==
  { Criteria(ids, names, all) :
      ids \in SeqsUpTo({903, 904, 999}, MaxArgs),
      names \in SeqsUpTo({ <<"b">>, <<"b", "O", "d">>, <<"x">> }, MaxArgs),
      all \in BOOLEAN }

(***************************************************************************)
(* The enrichment loop of the command (app.py 561-591).                    *)
(***************************************************************************)
CourseMap_misaligned(cs) ==
  [u \in {cs[i].uuid : i \in DOMAIN cs} |->
     cs[((CHOOSE i \in DOMAIN cs : cs[i].uuid = u /\ \A j \in DOMAIN cs : cs[j].uuid = u => j <= i)
          % Len(cs)) + 1]]

\* {course.uuid: course for course in courses}: the last course of a uuid wins.
CourseMap(cs) ==
  [u \in {cs[i].uuid : i \in DOMAIN cs} |->
     cs[CHOOSE i \in DOMAIN cs : cs[i].uuid = u /\ \A j \in DOMAIN cs : cs[j].uuid = u => j <= i]]

EnrichOne_partial_only(tt, cmap) ==
  IF tt.course.uuid # "" /\ tt.course.uuid \in DOMAIN cmap /\ tt.course.id = 0
    THEN LET c == cmap[tt.course.uuid]
         IN [tt EXCEPT !.course = TeeTimeCourse(c.id, c.uuid, c.name, SomeText(c.club_name))]
    ELSE tt

EnrichOne_blank_unmapped(tt, cmap) ==
  IF tt.course.uuid # "" /\ tt.course.uuid \in DOMAIN cmap
    THEN LET c == cmap[tt.course.uuid]
         IN [tt EXCEPT !.course = TeeTimeCourse(c.id, c.uuid, c.name, SomeText(c.club_name))]
    ELSE [tt EXCEPT !.course = TeeTimeCourse(0, tt.course.uuid, <<>>, SomeText(<<>>))]

\* The body of `for tt in tee_times`: tt.course is always set by the normalizer,
\* so the uuid is tt.course.uuid when that is not empty, and no uuid otherwise.
EnrichOne(tt, cmap) ==
  IF tt.course.uuid # "" /\ tt.course.uuid \in DOMAIN cmap
    THEN LET c == cmap[tt.course.uuid]
         IN [tt EXCEPT !.course = TeeTimeCourse(c.id, c.uuid, c.name, SomeText(c.club_name))]
    ELSE tt

Enrich(tts, cs) == [i \in DOMAIN tts |-> EnrichOne(tts[i], CourseMap(cs))]

(***************************************************************************)
(* The /tee-times exchange of one loop iteration (client.py 172-183) and   *)
(* the two handlers that end it (client.py 226-234).                       *)
(***************************************************************************)
\* status: "ok" (a 2xx answer whose body parses), "http401" and "http500"
\* (raise_for_status raises HTTPStatusError), "network" (the request raises a
\* transport error), "badjson" (response.json() raises).
Failed(status) == [status |-> status, body |-> NoData]
Answered(body) == [status |-> "ok", body |-> body]

Responses(b) ==
  {Failed(st) : st \in {"http401", "http500", "network", "badjson"}}
    \cup {Answered(d) : d \in Bodies(b)}

\* What the except clauses do with a failed exchange: HTTPStatusError (of any
\* status, 401 included) and the transport errors are httpx.HTTPError, the rest
\* is Exception; both clauses log and fall through to the next course.
per_course_handler(status) == "continue"

accumulator_after_failure_reset(att) == <<>>

\* all_tee_times after an except clause of the course loop: not touched.
accumulator_after_failure(att) == att

left_after_abandoning(ev, l) == IF ev = "warning" THEN 0 ELSE l - 1

\* The records still to iterate after the loop body: `continue` in the
\* per-record handler goes on with the next record like any other outcome.
left_after(ev, l) == l - 1

(***************************************************************************)
(* Datetimes.  A datetime is a wall-clock reading in seconds, counted from *)
(* the midnight that starts the machine's local day, with the offset of    *)
(* its zone from UTC when it has a zone ("aware") and none when it has not *)
(* ("naive").                                                              *)
(***************************************************************************)
Hour == 60 * 60
Day == 24 * Hour

NoDatetime == [k |-> "none", wall |-> 0, off |-> 0]
AwareDt(wall, off) == [k |-> "aware", wall |-> wall, off |-> off]
NaiveDt(wall) == [k |-> "naive", wall |-> wall, off |-> 0]

\* ZoneInfo("Europe/Stockholm"), winter time.
StockholmOffset == 1 * Hour

\* time(23, 59, 59)
EndOfDay == 23 * Hour + 59 * 60 + 59

\* A --start / --end value: not given, a date or date and time without a zone
\* ("2025-01-15 08:00"; a bare date reads as 00:00), one with a zone
\* ("2025-01-15T08:30+05:00"), or a text that is no date.
Omitted == [k |-> "omitted", wall |-> 0, zoned |-> FALSE, off |-> 0]
LocalText(wall) == [k |-> "text", wall |-> wall, zoned |-> FALSE, off |-> 0]
ZonedText(wall, off) == [k |-> "text", wall |-> wall, zoned |-> TRUE, off |-> off]
BadText == [k |-> "bad", wall |-> 0, zoned |-> FALSE, off |-> 0]

Window(start, end) == [start |-> start, end |-> end]

\* dateutil's reading of the text, put in Stockholm's zone when it names none;
\* typer.BadParameter when neither dateutil nor strptime can read it.
parse_datetime_arg(arg) ==
  IF arg.k = "bad" THEN [raised |-> TRUE, dt |-> NoDatetime]
  ELSE IF arg.zoned THEN [raised |-> FALSE, dt |-> AwareDt(arg.wall, arg.off)]
  ELSE [raised |-> FALSE, dt |-> AwareDt(arg.wall, StockholmOffset)]

\* dt.date() as a day number, and datetime.combine(date, time): no zone.
DateOf(dt) == dt.wall \div Day
Combine(d, t) == NaiveDt(d * Day + t)

\* datetime.combine(date.today(), time.min)
DefaultStart == Combine(0, 0)

\* start_dt and end_dt as app.py 512-521 compute them.
StartOf(arg) ==
  IF arg.k = "omitted" THEN [raised |-> FALSE, dt |-> DefaultStart]
  ELSE parse_datetime_arg(arg)

EndOf(arg, start) ==
  IF arg.k = "omitted" THEN [raised |-> FALSE, dt |-> Combine(DateOf(start), EndOfDay)]
  ELSE parse_datetime_arg(arg)

Before_by_wall_clock(a, b) ==
  IF a.wall < b.wall THEN "true" ELSE "false"

\* a < b on datetimes: by instant when both have a zone, by wall clock when
\* neither has, and a TypeError when only one has.
Before(a, b) ==
  IF a.k # b.k THEN "raise"
  ELSE IF a.wall - a.off < b.wall - b.off THEN "true" ELSE "false"

\* The ISO text sent to the server (client.py 144-156): the UTC wall clock of
\* an aware datetime, the wall clock as it is of a naive one, then "Z".
ToIso(dt) ==
  IF dt.k = "aware" THEN [wall |-> dt.wall - dt.off, suffix |-> "Z"]
  ELSE [wall |-> dt.wall, suffix |-> "Z"]

\* The --start / --end values tried, and the zones the machine may be in.
SampleWindows ==
  { Window(s, e) :
      s \in {Omitted, LocalText(8 * Hour), BadText},
      e \in {Omitted, LocalText(12 * Hour), LocalText(0 - 12 * Hour),
             ZonedText(8 * Hour + 30 * 60, 5 * Hour), BadText} }

UtcOffsets == {0, StockholmOffset}

(***************************************************************************)
(* The state machine.                                                      *)
(***************************************************************************)
NoResult == [kind |-> "none", tts |-> <<>>]

\* limit and page as get_available_times declares them.
DefaultLimit == 100
DefaultPage == 1
Paging(limit, page) == [limit |-> limit, page |-> page]

Init ==
  /\ pc = "start"
  /\ command = "none"
  /\ criteria = Criteria(<<>>, <<>>, FALSE)
  /\ players = 1
  /\ window = Window(Omitted, Omitted)
  /\ utc_offset = 0
  /\ start_dt = NoDatetime
  /\ end_dt = NoDatetime
  /\ paging = Paging(DefaultLimit, DefaultPage)
  /\ client = "none"
  /\ catalog = <<>>
  /\ course_requests = <<>>
  /\ warnings = <<>>
  /\ courses = <<>>
  /\ idx = 0
  /\ data = NoData
  /\ left = 0
  /\ item = NotARecord
  /\ event = "none"
  /\ all_tee_times = <<>>
  /\ nrec = 0
  /\ requests = <<>>
  /\ result = NoResult
  /\ tee_times = <<>>
  /\ exit_code = -1
  /\ message = "none"

\* raise typer.Exit(code) / the command returning (code 0) / an exception
\* nobody catches (code 1, with a traceback).
Exit(code, msg) ==
  /\ pc' = "exit"
  /\ exit_code' = code
  /\ message' = msg

exit_client_on_success_only(raised) == IF raised THEN "open" ELSE "closed"

\* GolfstarAPIClient.__exit__ at the end of a with block: close(), whether the
\* block ended normally or by an exception.
exit_client(raised) == "closed"

\* An exit from inside the with block of a command.
Leave(code, msg) ==
  /\ Exit(code, msg)
  /\ client' = exit_client(code # 0)

\* except Exception as e around get_available_times (app.py 592-606), and the
\* outer handler it re-raises to (app.py 608-610): exit code 1 either way.
HandleError(mentions_401) ==
  IF mentions_401 THEN Leave(1, "authorization_required") ELSE Leave(1, "error")

\* An exception leaving get_available_times: to the command's handlers, or to
\* whoever called the method.
Raise(mentions_401) ==
  IF command = "get_available_times"
    THEN pc' = "raised" /\ UNCHANGED <<exit_code, message, client>>
    ELSE HandleError(mentions_401)

\* The end of get_available_times (client.py 236-239) and, in the command, the
\* rest of it: the enrichment loop and the display (app.py 574-617).
Return(att) ==
  /\ idx' = idx
  /\ IF SortRaises(att)
       THEN /\ all_tee_times' = att
            /\ result' = [kind |-> "raised", tts |-> <<>>]
            /\ tee_times' = <<>>
            /\ Raise(FALSE)            \* a TypeError: its text has no "401", no "JWT"
       ELSE /\ all_tee_times' = SortByFrom(att)
            /\ result' = [kind |-> "returned", tts |-> SortByFrom(att)]
            /\ IF command = "get_available_times"
                 THEN /\ pc' = "returned"
                      /\ UNCHANGED <<tee_times, exit_code, message, client>>
                 ELSE /\ tee_times' = Enrich(SortByFrom(att), courses)
                      /\ Leave(0, IF att = <<>> THEN "no_times" ELSE "table")

\* The for loop over course_uuids moving on, with the accumulator as it is.
NextCourse(att) ==
  IF idx < Len(courses)
    THEN /\ pc' = "query"
         /\ idx' = idx + 1
         /\ all_tee_times' = att
         /\ UNCHANGED <<result, tee_times, exit_code, message, client>>
    ELSE Return(att)

\* The availability command from its start to the with block (app.py 504-546):
\* the selector check, the window, the range check, and the client.
Begin(c, p, w, off) ==
  LET s == StartOf(w.start)
      e == EndOf(w.end, s.dt)
      no_selector == c.ids = <<>> /\ c.names = <<>> /\ ~c.all
      bad == s.raised \/ e.raised
  IN /\ command' = "availability"
     /\ criteria' = c
     /\ players' = p
     /\ window' = w
     /\ utc_offset' = off
     /\ paging' = paging
     /\ start_dt' = IF no_selector \/ s.raised THEN NoDatetime ELSE s.dt
     /\ end_dt' = IF no_selector \/ bad THEN NoDatetime ELSE e.dt
     /\ IF no_selector THEN Exit(1, "no_selector") /\ client' = client
        ELSE IF bad THEN Exit(2, "bad_parameter") /\ client' = client
        ELSE IF Before(e.dt, s.dt) = "raise"
          THEN Exit(1, "traceback") /\ client' = client     \* TypeError, not caught
        ELSE IF Before(e.dt, s.dt) = "true"
          THEN Exit(1, "end_before_start") /\ client' = client
        ELSE pc' = "courses" /\ client' = "open" /\ UNCHANGED <<exit_code, message>>
     /\ UNCHANGED <<catalog, course_requests, warnings, courses, idx, loopvars,
                    all_tee_times, requests, result, tee_times>>

\* The command is started with the default window, on a machine in Sweden.
Availability ==
  /\ pc = "start"
  /\ \E c \in SampleCriteria, p \in SamplePlayers :
       Begin(c, p, Window(Omitted, Omitted), StockholmOffset)

\* The command is started with any window, on any machine.
AvailabilityWindow ==
  /\ pc = "start"
  /\ \E c \in {Criteria(<<>>, <<>>, FALSE), Criteria(<<903>>, <<>>, FALSE),
               Criteria(<<>>, <<>>, TRUE)},
        w \in SampleWindows, off \in UtcOffsets :
       Begin(c, 1, w, off)

\* What GET /courses came to: an answer that parses into Course objects, an
\* error status, a transport error, a body that is no JSON, or records that
\* are no Course.
CourseResponses == {"ok", "http500", "network", "badjson", "invalid"}

CourseRequest(outcome) == [path |-> "/courses", outcome |-> outcome]

get_courses_swallowing(resp) ==
  [raised |-> FALSE, value |-> IF resp = "ok" THEN Catalog ELSE <<>>]

\* get_courses (client.py 105-117): both except clauses log and re-raise.
get_courses(resp) ==
  IF resp = "ok" THEN [raised |-> FALSE, value |-> Catalog]
  ELSE [raised |-> TRUE, value |-> <<>>]

\* get_courses_by_criteria inside the client's with block (app.py 546-563),
\* then the start of get_available_times (client.py 144-161).
SelectCourses ==
  /\ pc = "courses"
  /\ \E resp \in CourseResponses :
       LET r == get_courses(resp)
           cs == get_courses_by_criteria(r.value, criteria.ids, criteria.names,
                                         criteria.all)
       IN /\ course_requests' = Append(course_requests, CourseRequest(resp))
          /\ IF r.raised
               THEN /\ HandleError(FALSE)     \* re-raised twice: caught at app.py 608
                    /\ UNCHANGED <<catalog, warnings, courses, idx>>
               ELSE /\ catalog' = r.value
                    /\ warnings' = criteria_warnings(r.value, criteria.ids,
                                                     criteria.names, criteria.all)
                    /\ courses' = cs
                    /\ IF cs = <<>>
                         THEN Leave(1, "no_courses") /\ idx' = idx
                         ELSE /\ pc' = "query"
                              /\ idx' = 1
                              /\ UNCHANGED <<exit_code, message, client>>
  /\ UNCHANGED <<argvars, loopvars, all_tee_times, requests, result, tee_times>>

\* The parameters of one /tee-times request (client.py 162-170).
QueryParams_first_course(course_uuid, start_iso, end_iso, p, limit, page) ==
  [from_after |-> start_iso, from_before |-> end_iso, course_uuid |-> courses[1].uuid,
   available_slots_gte |-> p, limit |-> limit, page |-> page, order_from |-> "asc"]

QueryParams(course_uuid, start_iso, end_iso, p, limit, page) ==
  [from_after |-> start_iso, from_before |-> end_iso, course_uuid |-> course_uuid,
   available_slots_gte |-> p, limit |-> limit, page |-> page, order_from |-> "asc"]

\* One iteration of `for course_uuid in course_uuids` up to the record loop:
\* the request, the answer, and `items` resolved from it.  b is the number of
\* records the answer may hold.
QueryCourseOf(b) ==
  /\ pc = "query"
  /\ \E resp \in Responses(b) :
       LET r == IF resp.status = "ok" THEN ResolveItems(resp.body) ELSE Unreadable
           outcome == IF resp.status # "ok" THEN resp.status
                      ELSE IF r.ok THEN "ok" ELSE "unreadable"
       IN /\ requests' = Append(requests,
                            [uuid |-> courses[idx].uuid, outcome |-> outcome,
                             src |-> r.src, n |-> r.n, got |-> <<>>,
                             params |-> QueryParams(courses[idx].uuid, ToIso(start_dt),
                                                    ToIso(end_dt), players,
                                                    paging.limit, paging.page)])
          /\ data' = IF resp.status = "ok" THEN resp.body ELSE data
          /\ left' = IF outcome = "ok" THEN r.n ELSE left
          /\ IF outcome = "ok" /\ r.n > 0
               THEN /\ pc' = "items"
                    /\ UNCHANGED <<idx, all_tee_times, result, tee_times,
                                   exit_code, message, client>>
             ELSE IF outcome = "ok"
               THEN NextCourse(all_tee_times)
             ELSE IF per_course_handler(resp.status) = "raise"
               THEN /\ result' = [kind |-> "raised", tts |-> <<>>]
                    /\ Raise(resp.status = "http401")
                    /\ UNCHANGED <<idx, all_tee_times, tee_times>>
             ELSE NextCourse(accumulator_after_failure(all_tee_times))
  /\ UNCHANGED <<argvars, catalog, course_requests, warnings, courses, item, event, nrec>>

QueryCourse == QueryCourseOf(MaxRecords - nrec)

QueryCourseBrief == QueryCourseOf(BriefRecords - nrec)

\* One iteration of `for item in items` (client.py 186-224); after the last
\* record of the last course the call sorts and returns.
ProcessItem ==
  /\ pc = "items"
  /\ \E it \in SampleRecords :
       LET r == ParseItem(it, courses[idx].uuid, players)
           l == left_after(r.event, left)
       IN /\ item' = it
          /\ event' = r.event
          /\ nrec' = nrec + 1
          /\ requests' = [requests EXCEPT ![Len(requests)].got = @ \o r.out]
          /\ left' = l
          /\ IF l > 0
               THEN /\ all_tee_times' = all_tee_times \o r.out
                    /\ UNCHANGED <<pc, idx, result, tee_times, exit_code, message, client>>
               ELSE NextCourse(all_tee_times \o r.out)
  /\ UNCHANGED <<argvars, catalog, course_requests, warnings, courses, data>>

Next == Availability \/ SelectCourses \/ QueryCourse \/ ProcessItem

Spec == Init /\ [][Next]_vars

(***************************************************************************)
(* The availability command with any window on any machine, and the two    *)
(* other commands that open a client: list_courses and course_info.        *)
(***************************************************************************)
\* list_courses up to its with block (app.py 56-80).
ListCourses ==
  /\ pc = "start"
  /\ command' = "list_courses"
  /\ client' = "open"
  /\ pc' = "fetch"
  /\ UNCHANGED <<criteria, players, window, utc_offset, start_dt, end_dt, paging,
                 catalog, course_requests, warnings, courses, idx, loopvars,
                 all_tee_times, requests, result, tee_times, exit_code, message>>

\* course_info <course_id> up to its with block (app.py 128-143).
CourseInfoCommand ==
  /\ pc = "start"
  /\ \E course_id \in {903, 999} :
       criteria' = Criteria(<<course_id>>, <<>>, FALSE)
  /\ command' = "course_info"
  /\ client' = "open"
  /\ pc' = "fetch"
  /\ UNCHANGED <<players, window, utc_offset, start_dt, end_dt, paging,
                 catalog, course_requests, warnings, courses, idx, loopvars,
                 all_tee_times, requests, result, tee_times, exit_code, message>>

\* The with block of list_courses (app.py 80-93) or of course_info (app.py
\* 143-152) and what follows it: the client is closed when the block is left,
\* then the command reports.
FetchCourses ==
  /\ pc = "fetch"
  /\ \E resp \in CourseResponses :
       LET r == get_courses(resp)
           found == SelectByIds(r.value, criteria.ids)
       IN /\ course_requests' = Append(course_requests, CourseRequest(resp))
          /\ client' = exit_client(r.raised)
          /\ IF r.raised
               THEN Exit(1, "error") /\ UNCHANGED <<catalog, courses>>
             ELSE IF command = "list_courses"
               THEN /\ catalog' = r.value
                    /\ courses' = r.value
                    /\ Exit(0, IF r.value = <<>> THEN "no_courses" ELSE "table")
             ELSE /\ catalog' = r.value
                  /\ courses' = found
                  /\ IF found = <<>> THEN Exit(1, "not_found") ELSE Exit(0, "panel")
  /\ UNCHANGED <<argvars, warnings, idx, loopvars, all_tee_times, requests, result,
                 tee_times>>

NextCommands ==
  \/ AvailabilityWindow
  \/ ListCourses
  \/ CourseInfoCommand
  \/ FetchCourses
  \/ SelectCourses
  \/ QueryCourseBrief
  \/ ProcessItem

SpecCommands == Init /\ [][NextCommands]_vars

(***************************************************************************)
(* get_available_times called on an open client with any arguments.        *)
(***************************************************************************)
\* course_uuids, as the courses they are the uuids of: none, one, two, and
\* the same one twice.
SampleCourseLists ==
  { <<>>, <<Catalog[1]>>, Catalog, <<Catalog[2], Catalog[2]>> }

\* start_datetime and end_datetime: naive, in Stockholm's zone, and one of each.
SampleCallWindows ==
  { Window(NaiveDt(0), NaiveDt(EndOfDay)),
    Window(AwareDt(8 * Hour, StockholmOffset), AwareDt(12 * Hour, StockholmOffset)),
    Window(AwareDt(8 * Hour, 0), NaiveDt(12 * Hour)) }

SamplePaging == { Paging(DefaultLimit, DefaultPage), Paging(50, 2) }

\* The call up to the course loop (client.py 119-156): the arguments are bound
\* and the window is put in ISO text.
Call ==
  /\ pc = "start"
  /\ \E cs \in SampleCourseLists, w \in SampleCallWindows, p \in {1, 2},
        pg \in SamplePaging :
       /\ courses' = cs
       /\ start_dt' = w.start
       /\ end_dt' = w.end
       /\ players' = p
       /\ paging' = pg
  /\ command' = "get_available_times"
  /\ client' = "open"
  /\ pc' = "loop"
  /\ UNCHANGED <<criteria, window, utc_offset, catalog, course_requests, warnings,
                 idx, loopvars, all_tee_times, requests, result, tee_times,
                 exit_code, message>>

\* all_tee_times = [] and the first turn of the for statement (client.py
\* 158-161): into the loop body, or past the loop when the list is empty.
EnterLoop ==
  /\ pc = "loop"
  /\ NextCourse(<<>>)
  /\ UNCHANGED <<argvars, catalog, course_requests, warnings, courses, loopvars,
                 requests>>

NextCall == Call \/ EnterLoop \/ QueryCourseBrief \/ ProcessItem

SpecCall == Init /\ [][NextCall]_vars

(***************************************************************************)
(* get_courses_by_criteria applied to any catalog and any criteria.        *)
(***************************************************************************)
SelectFromCatalog ==
  /\ pc = "start"
  /\ \E all \in SampleCatalogs, c \in CriteriaSpace :
       /\ catalog' = all
       /\ criteria' = c
       /\ courses' = get_courses_by_criteria(all, c.ids, c.names, c.all)
       /\ warnings' = criteria_warnings(all, c.ids, c.names, c.all)
  /\ command' = "get_courses_by_criteria"
  /\ course_requests' = Append(course_requests, CourseRequest("ok"))
  /\ pc' = "returned"
  /\ UNCHANGED <<players, window, utc_offset, start_dt, end_dt, paging, client, idx,
                 loopvars, all_tee_times, requests, result, tee_times, exit_code,
                 message>>

NextCriteria == SelectFromCatalog

SpecCriteria == Init /\ [][NextCriteria]_vars

(***************************************************************************)
(* Properties.                                                             *)
(***************************************************************************)
Last(q) == q[Len(q)]

\* The TeeTimes the courses contributed, in the order they were appended.
RECURSIVE Gathered(_)
Gathered(reqs) ==
  IF reqs = <<>> THEN <<>>
  ELSE Gathered(SubSeq(reqs, 1, Len(reqs) - 1)) \o Last(reqs).got

Succeeded(q) == q.outcome = "ok"

Returned == result.kind = "returned"

\* C1: the list get_available_times returns is non-decreasing by from_time:
\* each returned tee time starts no later than the one after it.
C1_SortedByFromTime ==
  Returned =>
    \A i \in 1..(Len(result.tts) - 1) :
      LET a == result.tts[i].from_time
          b == result.tts[i + 1].from_time
      IN a.k = b.k /\ a.k # "none" /\ a.t <= b.t

\* The sort has reordered what the courses contributed.
C1_Witness ==
  /\ Returned
  /\ Len(result.tts) = 2
  /\ Gathered(requests) # result.tts
  /\ result.tts[1].from_time.t < result.tts[2].from_time.t

\* C2: a failed exchange for one course contributes no record and leaves the
\* other courses' records alone: every course is still queried, in order, and
\* the result is the sorted records of the courses that answered, which is what
\* a call for those courses alone returns.
C2_FailureIsolated ==
  /\ \A i \in DOMAIN requests : ~Succeeded(requests[i]) => requests[i].got = <<>>
  /\ result.kind # "none" =>
       /\ Len(requests) = Len(courses)
       /\ \A i \in DOMAIN requests : requests[i].uuid = courses[i].uuid
  /\ Returned => result.tts = SortByFrom(Gathered(SelectSeq(requests, Succeeded)))

\* The first course fails, the second answers two valid records: exactly those.
C2_Witness ==
  /\ Returned
  /\ Len(requests) = 2
  /\ requests[1].outcome \in {"http500", "network", "badjson"}
  /\ Succeeded(requests[2])
  /\ Len(requests[2].got) = 2
  /\ Len(result.tts) = 2

\* C3: a 401 answer to a /tee-times query is surfaced: the call does not return
\* normally, and the command ends with exit code 1 reporting that authorization
\* is required.
C3_UnauthorizedSurfaced ==
  (\E i \in DOMAIN requests : requests[i].outcome = "http401") =>
    /\ ~Returned
    /\ pc = "exit" => exit_code = 1 /\ message = "authorization_required"

\* The competition marker, in any letter case, in one of the two texts.
MarkedText(v) == v.k = "str" /\ Contains(Lower(v.s), Marker)

RawCompetition(it) ==
  /\ it.k = "dict"
  /\ it.category.k = "dict"
  /\ MarkedText(it.category.description) \/ MarkedText(it.category.custom_name)

\* C4: no tee time gathered or returned carries the competition marker in its
\* category's description or custom_name, whatever its available_slots; a
\* marked record is never appended, and the filter answers before TeeTime is
\* built (a marked record that TeeTime would reject is skipped as a
\* competition, not as a parse failure).
C4_NoCompetitionReturned ==
  /\ \A i \in DOMAIN all_tee_times :
       ~MarkedText(all_tee_times[i].category.description)
         /\ ~MarkedText(all_tee_times[i].category.custom_name)
  /\ \A i \in DOMAIN result.tts :
       ~MarkedText(result.tts[i].category.description)
         /\ ~MarkedText(result.tts[i].category.custom_name)
  /\ RawCompetition(item) => event # "appended"
  /\ /\ RawCompetition(item)
     /\ item.available_slots.k = "int" /\ item.available_slots.n >= players
     /\ item.course.k = "absent" /\ item.price.k = "absent"
     /\ item.category.description.k # "null" /\ item.category.custom_name.k # "null"
     => event = "competition"

\* A record with custom_name "Tävling" and 4 free slots is skipped while another
\* record of the call is returned.
C4_Witness ==
  /\ Returned
  /\ event = "competition"
  /\ item.available_slots = Int_(4)
  /\ Len(result.tts) = 1

\* C5: every tee time gathered or returned has available_slots >= players; a
\* record whose available_slots (0 when absent) is below players is dropped
\* silently, with no error logged.
C5_EnoughSlots ==
  /\ \A i \in DOMAIN all_tee_times : all_tee_times[i].available_slots >= players
  /\ \A i \in DOMAIN result.tts : result.tts[i].available_slots >= players
  /\ /\ event # "none"
     /\ item.k = "dict"
     /\ \/ item.available_slots.k = "absent" /\ 0 < players
        \/ item.available_slots.k = "int" /\ item.available_slots.n < players
     => event = "below"

\* The server answers a record with one free slot to a query for two players.
C5_Witness ==
  /\ Returned
  /\ players = 2
  /\ event = "below"
  /\ item.available_slots = Int_(1)
  /\ Len(result.tts) = 1

\* C6: a record that fails to parse is excluded alone.  In every iteration of
\* the record loop the earlier courses' contributions are untouched; a failing
\* record leaves this course's contribution as it was and an accepted one is
\* appended to it; the loop goes on with the next record, then with the next
\* course; and the call raises at the end only if the accepted records cannot
\* be sorted.
C6_FailedRecordExcludedAlone ==
  [][ nrec' = nrec + 1 =>
        LET n == Len(requests)
            got == requests[n].got
            got2 == requests'[n].got
        IN /\ Len(requests') = n
           /\ \A i \in 1..(n - 1) : requests'[i] = requests[i]
           /\ event' = "warning" => got2 = got
           /\ event' = "appended" =>
                /\ Len(got2) = Len(got) + 1
                /\ SubSeq(got2, 1, Len(got)) = got
                /\ Last(got2).uuid = item'.uuid.u
           /\ left' = left - 1
           /\ left' > 0 => pc' = "items" /\ idx' = idx
           /\ left' = 0 /\ idx < Len(courses) => pc' = "query" /\ idx' = idx + 1
           /\ left' = 0 /\ idx = Len(courses) =>
                IF SortRaises(Gathered(requests'))
                  THEN result'.kind = "raised"
                  ELSE result'.kind = "returned"
                         /\ Len(result'.tts) = Len(Gathered(requests'))
    ]_vars

\* A valid record followed by a record without uuid: the first is returned.
C6_Witness ==
  /\ Returned
  /\ event = "warning"
  /\ item.k = "dict" /\ item.uuid.k = "absent"
  /\ Last(requests).n = 2
  /\ Len(Last(requests).got) = 1
  /\ Len(result.tts) = 1

\* A record with the plain fields only, bookable for `p` players.
PlainValid(it, p) ==
  /\ it.k = "dict" /\ it.uuid.k = "str"
  /\ it.from.k \in {"aware", "naive", "absent"}
  /\ it.available_slots.k = "int" /\ it.available_slots.n >= p
  /\ it.category.k = "absent" /\ it.course.k = "absent" /\ it.price.k = "absent"

\* The records of the lists resolved by the requests of the call.
RECURSIVE RecordsResolved(_)
RecordsResolved(reqs) ==
  IF reqs = <<>> THEN 0
  ELSE RecordsResolved(SubSeq(reqs, 1, Len(reqs) - 1)) + Last(reqs).n

\* C7: the record list is the bare list itself, or the envelope's list under
\* "hydra:member" when that key is there, else under "items", else empty; the
\* call iterates exactly the records of the lists so resolved; and a single
\* answer of one valid record gives one TeeTime with its uuid.
C7_RecordListResolved ==
  /\ requests # <<>> /\ Succeeded(Last(requests)) =>
       LET q == Last(requests)
       IN /\ data.kind = "list" => q.src = "list" /\ q.n = data.n
          /\ data.kind = "object" /\ data.hydra.k = "list" =>
               q.src = "hydra:member" /\ q.n = data.hydra.n
          /\ data.kind = "object" /\ data.hydra.k = "absent" /\ data.items.k = "list" =>
               q.src = "items" /\ q.n = data.items.n
          /\ data.kind = "object" /\ data.hydra.k = "absent" /\ data.items.k = "absent" =>
               q.src = "default" /\ q.n = 0
  /\ result.kind # "none" => nrec = RecordsResolved(requests)
  /\ /\ pc = "exit" /\ Len(requests) = 1 /\ Succeeded(requests[1])
     /\ requests[1].n = 1 /\ PlainValid(item, players)
     => /\ Returned
        /\ Len(result.tts) = 1
        /\ result.tts[1].uuid = item.uuid.u

\* {"items": [{"uuid": "t1", "from": "...07:00:00Z", "available_slots": 2}]}
C7_Witness ==
  /\ Returned
  /\ Len(requests) = 1
  /\ data = Envelope(NoList, ListOf(1))
  /\ Len(result.tts) = 1
  /\ result.tts[1].uuid = "t1"

\* C8: every tee time returned carries a course reference whose uuid is not
\* empty.
C8_CourseUuidNotEmpty ==
  \A i \in DOMAIN result.tts : result.tts[i].course.uuid # ""

\* C9: after the enrichment loop every tee time whose course uuid is a key of
\* the course mapping carries the (id, uuid, name, club name) of the mapped
\* Course, whatever reference the normalizer gave it.
C9_EnrichmentOverwrites ==
  pc = "exit" /\ Returned =>
    /\ Len(tee_times) = Len(result.tts)
    /\ \A i \in DOMAIN result.tts :
         LET u == result.tts[i].course.uuid
         IN u \in {courses[j].uuid : j \in DOMAIN courses} =>
              LET c == CourseMap(courses)[u]
              IN tee_times[i].course =
                   TeeTimeCourse(c.id, c.uuid, c.name, SomeText(c.club_name))

\* A reference the server filled in (id 7) is replaced by the catalog's (904),
\* and one the normalizer made up (id 0) by the catalog's too.
C9_Witness ==
  /\ pc = "exit" /\ Returned
  /\ \E i \in DOMAIN result.tts :
       result.tts[i].course.id = 7 /\ tee_times[i].course.id = 904
  /\ \E i \in DOMAIN result.tts :
       result.tts[i].course.id = 0 /\ tee_times[i].course.id = 903

\* C10: the enrichment loop is idempotent: run again over its own result with
\* the same courses, it changes no tee time.
C10_EnrichmentIdempotent ==
  pc = "exit" /\ Returned => Enrich(tee_times, courses) = tee_times

\* The first run changed a reference, and left another (uuid not mapped) alone.
C10_Witness ==
  /\ pc = "exit" /\ Returned
  /\ Len(tee_times) = 2
  /\ tee_times[1].course # result.tts[1].course
  /\ tee_times[2].course = result.tts[2].course

\* C11: the enrichment loop leaves the course reference of a tee time exactly
\* as get_available_times produced it when its course uuid is no key of the
\* course mapping (an empty uuid included), and it changes no other field of
\* any tee time, nor the number or order of the tee times.
C11_EnrichmentFrame ==
  pc = "exit" /\ Returned =>
    /\ Len(tee_times) = Len(result.tts)
    /\ \A i \in DOMAIN result.tts :
         /\ [tee_times[i] EXCEPT !.course = result.tts[i].course] = result.tts[i]
         /\ result.tts[i].course.uuid \notin {courses[j].uuid : j \in DOMAIN courses}
              => tee_times[i].course = result.tts[i].course

\* One tee time carries a reference the server filled in (id 7) for a course
\* that was not selected, another a reference with an empty uuid.
C11_Witness ==
  /\ pc = "exit" /\ Returned
  /\ \E i \in DOMAIN tee_times :
       /\ tee_times[i].course.id = 7
       /\ tee_times[i].course.uuid \notin {courses[j].uuid : j \in DOMAIN courses}
  /\ \E i \in DOMAIN tee_times : tee_times[i].course.uuid = ""

\* C12: get_available_times called with an empty course list returns the
\* empty list and issues no /tee-times request; and when no course contributes
\* a record (its answer is empty, fails, or holds only records that are
\* skipped) the call returns the empty list too, it does not raise.
C12_NothingToReturn ==
  command = "get_available_times" /\ pc \notin {"start", "loop"} =>
    /\ courses = <<>> =>
         pc = "returned" /\ result = [kind |-> "returned", tts |-> <<>>] /\ requests = <<>>
    /\ pc \notin {"query", "items"} /\ (\A i \in DOMAIN requests : requests[i].got = <<>>) =>
         pc = "returned" /\ result = [kind |-> "returned", tts |-> <<>>]

\* The call with no course has returned.
C12_Witness ==
  /\ command = "get_available_times"
  /\ courses = <<>>
  /\ pc = "returned"
  /\ result.tts = <<>>

NoSelector(c) == c.ids = <<>> /\ c.names = <<>> /\ ~c.all

\* The instant a --start / --end text names, in seconds of UTC: the zone is
\* the text's own, Stockholm's when it names none.
TextInstant(arg) == arg.wall - (IF arg.zoned THEN arg.off ELSE StockholmOffset)

\* The instant the window starts at: the text's, or the midnight that starts
\* the machine's local day when --start is not given.
WindowStart(w, off) == IF w.start.k = "omitted" THEN 0 - off ELSE TextInstant(w.start)

\* --end names an instant before the start of the window.
EndBeforeStart(w, off) ==
  /\ w.start.k # "bad"
  /\ w.end.k = "text"
  /\ TextInstant(w.end) < WindowStart(w, off)

\* C13: when no course selector is given, or when --end names an instant
\* before the start of the window, the availability command ends with a
\* failure exit, and neither /courses nor /tee-times was requested and no
\* client was opened; this is so whether --start is given or not.
C13_ContradictionRejectedBeforeIO ==
  command = "availability" /\ (NoSelector(criteria) \/ EndBeforeStart(window, utc_offset)) =>
    /\ pc = "exit"
    /\ exit_code > 0
    /\ client = "none"
    /\ course_requests = <<>>
    /\ requests = <<>>

\* Both values are given, in different zones, and the end is the earlier
\* instant although its wall clock reads later.
C13_Witness ==
  /\ command = "availability" /\ pc = "exit"
  /\ ~NoSelector(criteria)
  /\ window.start.k = "text" /\ window.end.k = "text"
  /\ window.end.wall > window.start.wall
  /\ EndBeforeStart(window, utc_offset)
  /\ message = "end_before_start"

Min(S) == CHOOSE m \in S : \A n \in S : m <= n

\* Where a course of the catalog is first met by the selection: among the id
\* matches, at the first --id that names it; otherwise among the name matches,
\* at the first --name its name contains, in catalog order within one query.
IdHits(c) == {k \in DOMAIN criteria.ids : criteria.ids[k] = c.id}
NameHits(c) ==
  {k \in DOMAIN criteria.names : Contains(Lower(c.name), Lower(criteria.names[k]))}
CatalogPlace(c) == Min({k \in DOMAIN catalog : catalog[k] = c})

FirstSeen(c) ==
  IF IdHits(c) # {} THEN <<0, Min(IdHits(c)), 0>>
  ELSE IF NameHits(c) # {} THEN <<1, Min(NameHits(c)), CatalogPlace(c)>>
  ELSE <<2, 0, 0>>

Earlier(a, b) ==
  \/ a[1] < b[1]
  \/ a[1] = b[1] /\ a[2] < b[2]
  \/ a[1] = b[1] /\ a[2] = b[2] /\ a[3] < b[3]

C15_UnmatchedOnlyWarns ==
  pc = "returned" /\ command = "get_courses_by_criteria" /\ ~criteria.all =>
    /\ \A k \in DOMAIN catalog :
         IdHits(catalog[k]) # {} \/ NameHits(catalog[k]) # {}
           => \E i \in DOMAIN courses : courses[i] = catalog[k]
    /\ \A i \in DOMAIN courses :
         /\ \E k \in DOMAIN catalog : catalog[k] = courses[i]
         /\ IdHits(courses[i]) # {} \/ NameHits(courses[i]) # {}
    /\ Len(warnings) =
         Cardinality({k \in DOMAIN criteria.ids :
                        \A n \in DOMAIN catalog : catalog[n].id # criteria.ids[k]})
         + Cardinality({k \in DOMAIN criteria.names :
                          \A n \in DOMAIN catalog :
                            ~Contains(Lower(catalog[n].name), Lower(criteria.names[k]))})

\* --id 999 --id 903: the unknown id comes first and is warned about, the
\* known one after it is still selected.
C15_Witness ==
  /\ pc = "returned" /\ command = "get_courses_by_criteria"
  /\ criteria.ids = <<999, 903>>
  /\ warnings = <<IdWarning(999)>>
  /\ courses = << Catalog[1] >>

\* C16: in list_courses, course_info and availability the client that was
\* opened is closed when the command ends, whichever way it ends; a request
\* (/courses or /tee-times) is only issued while the client is open; and a
\* closed client stays closed.
C16_ClientClosedOnEveryExit ==
  [][ /\ pc' = "exit" => client' # "open"
      /\ (requests' # requests \/ course_requests' # course_requests) => client = "open"
      /\ client = "closed" =>
           client' = "closed" /\ requests' = requests /\ course_requests' = course_requests
    ]_vars

\* The availability command opened a client, the catalog request failed, and
\* the command ended with the client closed.
C16_Witness ==
  /\ command = "availability" /\ pc = "exit" /\ exit_code = 1
  /\ course_requests # <<>>
  /\ client = "closed"

\* C17: when the catalog request of the availability command fails, whatever
\* the failure, the exception comes out of get_courses and of
\* get_courses_by_criteria: no course is selected, the command reports the
\* error and ends with exit code 1, and no /tee-times request is issued.
C17_CatalogFailurePropagates ==
  command = "availability" /\ course_requests # <<>> /\ Last(course_requests).outcome # "ok" =>
    /\ pc = "exit"
    /\ exit_code = 1
    /\ message = "error"
    /\ courses = <<>>
    /\ requests = <<>>

\* /courses answered with an error status.
C17_Witness ==
  /\ command = "availability" /\ pc = "exit"
  /\ course_requests = <<CourseRequest("http500")>>
  /\ exit_code = 1

\* C18: get_available_times issues one /tee-times request per entry of
\* course_uuids, in list order (an entry that repeats is queried again), and
\* the next request is not issued before every record of the previous answer
\* has been iterated; when the call ends there is one request per entry.  All
\* requests of a call carry the same window, the players as the minimum of
\* available slots, the limit, the page and the ascending order; only
\* course.uuid differs.
C18_OneQueryPerCourse ==
  command = "get_available_times" /\ pc # "start" =>
    /\ Len(requests) = CASE pc = "loop" -> 0
                          [] pc = "query" -> idx - 1
                          [] pc = "items" -> idx
                          [] OTHER -> Len(courses)
    /\ pc = "query" => nrec = RecordsResolved(requests)
    /\ \A i \in DOMAIN requests :
         /\ requests[i].params.course_uuid = courses[i].uuid
         /\ requests[i].params.available_slots_gte = players
         /\ requests[i].params.limit = paging.limit
         /\ requests[i].params.page = paging.page
         /\ requests[i].params.order_from = "asc"
         /\ [requests[i].params EXCEPT !.course_uuid = ""]
              = [requests[1].params EXCEPT !.course_uuid = ""]

\* Two different courses were queried, with a limit and a page that are not
\* the defaults, and the call has returned.
C18_Witness ==
  /\ command = "get_available_times" /\ pc = "returned"
  /\ Len(requests) = 2
  /\ requests[1].params.course_uuid # requests[2].params.course_uuid
  /\ requests[1].params.page = 2
  /\ requests[1].n = 1

\* The instant the window ends at: the text's, or the last second of the day
\* the window starts in (a day of the machine's zone when --start is not
\* given, of Stockholm's otherwise).
WindowEnd(w, off) ==
  IF w.end.k = "text" THEN TextInstant(w.end)
  ELSE IF w.start.k = "omitted" THEN EndOfDay - off
  ELSE ((w.start.wall \div Day) * Day + EndOfDay) - StockholmOffset

\* C19: the from[after] and from[before] of every /tee-times request of the
\* availability command are, in UTC with the suffix Z, the instants the window
\* of the command starts and ends at: both for a --start read as Stockholm
\* time and for the default start, today at 00:00 on the machine.
C19_WindowSentAsUtcInstants ==
  command = "availability" =>
    \A i \in DOMAIN requests :
      /\ requests[i].params.from_after = [wall |-> WindowStart(window, utc_offset), suffix |-> "Z"]
      /\ requests[i].params.from_before = [wall |-> WindowEnd(window, utc_offset), suffix |-> "Z"]

\* What the claims call a bookable record: an object with a uuid, with at
\* least `p` available slots (none when the key is absent), and with no
\* category, an empty one, or one whose description and custom_name, each
\* possibly absent or null, do not contain the marker.
Bookable(it, p) ==
  /\ it.k = "dict"
  /\ it.uuid.k = "str"
  /\ (IF it.available_slots.k = "int" THEN it.available_slots.n ELSE 0) >= p
  /\ \/ it.category.k \in {"absent", "null"}
     \/ /\ it.category.k = "dict"
        /\ ~MarkedText(it.category.description)
        /\ ~MarkedText(it.category.custom_name)

\* The rest of the record is as the server documents it: the slots are not
\* null, `from` is a datetime or absent, and the course and the price, when
\* there, can be read.
WellFormedElsewhere(it) ==
  /\ it.available_slots.k # "null"
  /\ it.from.k # "bad"
  /\ it.course.k \in {"absent", "dict"}
  /\ it.course.k = "dict" => CourseInfoBuilds(it.course)
  /\ it.price.k \in {"absent", "dict"} /\ it.price.valid
  /\ it.category.k # "other"

\* C20: a record of a successful answer is appended to the result exactly
\* when it is bookable; in particular a bookable record whose category has a
\* null description or a null custom_name is appended.
C20_ExactlyTheBookable ==
  event # "none" /\ WellFormedElsewhere(item) =>
    (event = "appended" <=> Bookable(item, players))

\* C21: get_available_times never ends by an exception: whatever the courses
\* answered (a failure, any shape of body, any records, accepted records
\* without a `from` or with zone-aware and naive `from` values mixed), the
\* final sort does not abort the call.
C21_CallNeverRaises ==
  result.kind # "raised"

=============================================================================
